---------------------------- MODULE Spec2Model ----------------------------
(***************************************************************************)
(* passto: deterministic password derivation (passto/src/lib.rs).          *)
(*                                                                         *)
(* The public functions salt, hash, digest and encode are modelled as the  *)
(* operations of one state machine; a caller invokes one of them from      *)
(* "idle" and the loops of encode and digest advance one iteration per     *)
(* step.                                                                   *)
(*                                                                         *)
(* Bytes are integers 0..255 and byte strings are sequences of them.  A    *)
(* Rust String is a sequence of Unicode scalar values (code points); its   *)
(* len() is the length of its UTF-8 encoding, computed by StrLen.          *)
(* A value returned to the caller is a record [kind, val]:                 *)
(*   "Ok"                      val holds the bytes or the characters       *)
(*   "CustomAlphabetTooShort"  Err(HashingError::CustomAlphabetTooShort)   *)
(*   "panic"                   the call unwound with a Rust panic          *)
(***************************************************************************)
EXTENDS Integers, Sequences, FiniteSets, TLC

VARIABLES
    pc,          \* position of the running call: idle, salting, hashing,
                 \* digest_loop, truncate, done
    fn,          \* public function the caller invoked
    passphrase,  \* salt bytes (encode: passphrase, salt: salt)
    code,        \* data bytes (encode: code, salt: data)
    settings,    \* AlgorithmSettings of the call
    salted,      \* encode: local `salted`
    hashed,      \* encode: local `hashed`
    iter,        \* value the running `for _ in 1..n` range yields next
    data,        \* digest: parameter `data`
    alphabet,    \* digest: local sorted `alphabet`
    bigint,      \* digest: local `bigint`
    result,      \* digest: local `result`
    digested,    \* encode: local `digested`
    ret          \* value returned to the caller

vars == <<pc, fn, passphrase, code, settings, salted, hashed, iter, data,
          alphabet, bigint, result, digested, ret>>

-----------------------------------------------------------------------------
(* Bounds of the model *)

\* longest passphrase and longest code handed to encode
MaxLen == 1
\* longest byte string handed to salt directly
MaxSalt == 3
\* longest byte string handed to digest and hash directly
MaxData == 2
\* largest iteration count in the settings
MaxIter == 2
\* largest Zip chunk size
MaxChunk == 2
\* largest max_length
MaxCap == 2

-----------------------------------------------------------------------------
(* Generic helpers *)

Min(a, b) == IF a < b THEN a ELSE b

Max(a, b) == IF a > b THEN a ELSE b

RECURSIVE Pow(_, _)
Pow(b, e) == IF e = 0 THEN 1 ELSE b * Pow(b, e - 1)

\* all sequences over S of length at most n
BSeq(S, n) == UNION {[1..k -> S] : k \in 0..n}

Ok(v) == [kind |-> "Ok", val |-> v]

Err(e) == [kind |-> e, val |-> <<>>]

Panic == [kind |-> "panic", val |-> <<>>]

NoRet == [kind |-> "none", val |-> <<>>]

-----------------------------------------------------------------------------
(* Strings *)

\* number of bytes of the UTF-8 encoding of scalar value c
Utf8Len(c) == IF c < 128 THEN 1 ELSE IF c < 2048 THEN 2 ELSE IF c < 65536 THEN 3 ELSE 4

\* String::len(): the length in bytes
RECURSIVE StrLen(_)
StrLen(s) == IF s = <<>> THEN 0 ELSE Utf8Len(Head(s)) + StrLen(Tail(s))

\* &s[0..n] for n <= s.len(): the characters that fill exactly the first n
\* bytes; a panic when byte n is not a character boundary
RECURSIVE StrSlice(_, _)
StrSlice(s, n) ==
    IF n = 0 THEN Ok(<<>>)
    ELSE IF Utf8Len(Head(s)) > n THEN Panic
    ELSE LET rest == StrSlice(Tail(s), n - Utf8Len(Head(s)))
         IN  IF rest.kind = "panic" THEN Panic ELSE Ok(<<Head(s)>> \o rest.val)

-----------------------------------------------------------------------------
(* salt *)

\* slice::chunks(n) for n >= 1: consecutive n-element chunks, the last one
\* possibly shorter, none for an empty slice
RECURSIVE Chunks(_, _)
Chunks(s, n) ==
    IF s = <<>> THEN <<>>
    ELSE IF Len(s) <= n THEN <<s>>
    ELSE <<SubSeq(s, 1, n)>> \o Chunks(SubSeq(s, n + 1, Len(s)), n)

ZipChunksLongest(a, b) ==
    [i \in 1..Max(Len(a), Len(b)) |->
        <<IF i <= Len(a) THEN a[i] ELSE <<>>, IF i <= Len(b) THEN b[i] ELSE <<>>>>]

\* Iterator::zip: pairs by position, ends with the shorter side
ZipChunks(a, b) == [i \in 1..Min(Len(a), Len(b)) |-> <<a[i], b[i]>>]

FlatMapPairsDataFirst(pairs) ==
    IF pairs = <<>> THEN <<>>
    ELSE LET RECURSIVE go(_)
             go(ps) == IF ps = <<>> THEN <<>>
                       ELSE Head(ps)[2] \o Head(ps)[1] \o go(Tail(ps))
         IN  go(pairs)

\* the flat_map closure and collect(): n.0 then n.1 for every pair, in order
RECURSIVE FlatMapPairs(_)
FlatMapPairs(pairs) ==
    IF pairs = <<>> THEN <<>>
    ELSE Head(pairs)[1] \o Head(pairs)[2] \o FlatMapPairs(Tail(pairs))

SaltAppend(d, s) == d \o s

SaltPrependDataFirst(d, s) == d \o s

SaltPrepend(d, s) == s \o d

\* salt.chunks(n).zip(data.chunks(n)).flat_map(..).collect(), n >= 1
SaltZip(n, d, s) == FlatMapPairs(ZipChunks(Chunks(s, n), Chunks(d, n)))

\* salt(salting_algorithm, data, salt).  chunks(0) panics ("chunk size must
\* be non-zero") before anything is read, whatever the two slices hold.
salt(alg, d, s) ==
    CASE alg.kind = "Append"  -> Ok(SaltAppend(d, s))
      [] alg.kind = "Prepend" -> Ok(SaltPrepend(d, s))
      [] alg.kind = "Zip"     -> IF alg.n = 0 THEN Panic ELSE Ok(SaltZip(alg.n, d, s))

-----------------------------------------------------------------------------
(* hash *)

\* Digest size in bytes.  SHA-256 and SHA-512 give 32 and 64 bytes; the model
\* keeps two fixed sizes, scaled down so that a digest read as
\* one integer stays inside TLC's integers.
HashWidth(alg) == IF alg = "Sha256" THEN 2 ELSE 3

\* one absorbed byte of the stand-in compression function
RECURSIVE Absorb(_, _, _)
Absorb(h, d, m) ==
    IF d = <<>> THEN h ELSE Absorb((h * 33 + Head(d) + 1) % m, Tail(d), m)

\* the w bytes of h, most significant first
RECURSIVE ToBytesBe(_, _)
ToBytesBe(h, w) ==
    IF w = 0 THEN <<>> ELSE ToBytesBe(h \div 256, w - 1) \o <<h % 256>>

\* hash(hashing_algorithm, data): Sha256/Sha512 new, update(data), finalize.
\* The SHA-2 functions are library code; they are modelled by a stand-in with
\* the properties the pipeline relies on: a function of the algorithm and of
\* every input byte, with an output of the algorithm's fixed size.
hash(alg, d) ==
    LET w == HashWidth(alg)
        m == Pow(256, w)
    IN  ToBytesBe(Absorb((5381 + 977 * w + Len(d)) % m, d, m), w)

-----------------------------------------------------------------------------
(* digest *)

\* "0123456789abcdef"
HexDigits == [i \in 1..16 |-> IF i <= 10 THEN 47 + i ELSE 86 + i]

\* hex::encode: two lowercase digits per byte
RECURSIVE HexEncode(_)
HexEncode(d) ==
    IF d = <<>> THEN <<>>
    ELSE <<HexDigits[(Head(d) \div 16) + 1], HexDigits[(Head(d) % 16) + 1]>>
         \o HexEncode(Tail(d))

\* A-Z a-z 0-9 and "+/" (standard) or "-_" (URL-safe)
B64Table(url) ==
    [i \in 1..64 |->
        IF i <= 26 THEN 64 + i
        ELSE IF i <= 52 THEN 70 + i
        ELSE IF i <= 62 THEN i - 5
        ELSE IF i = 63 THEN (IF url THEN 45 ELSE 43)
        ELSE (IF url THEN 95 ELSE 47)]

\* Base64 of d: 3 bytes to 4 symbols; a last group of 1 or 2 bytes gives 2 or
\* 3 symbols, filled up with "=" when pad
RECURSIVE B64Encode(_, _, _)
B64Encode(d, url, pad) ==
    LET t == B64Table(url)
        b(i) == IF i <= Len(d) THEN d[i] ELSE 0
        v == b(1) * 65536 + b(2) * 256 + b(3)
        q == <<t[(v \div 262144) + 1], t[((v \div 4096) % 64) + 1],
               t[((v \div 64) % 64) + 1], t[(v % 64) + 1]>>
    IN  IF d = <<>> THEN <<>>
        ELSE IF Len(d) = 1 THEN SubSeq(q, 1, 2) \o (IF pad THEN <<61, 61>> ELSE <<>>)
        ELSE IF Len(d) = 2 THEN SubSeq(q, 1, 3) \o (IF pad THEN <<61>> ELSE <<>>)
        ELSE q \o B64Encode(SubSeq(d, 4, Len(d)), url, pad)

\* index of the first smallest element of a non-empty sequence
MinIndex(s) ==
    CHOOSE i \in 1..Len(s) :
        /\ \A j \in 1..Len(s) : s[i] <= s[j]
        /\ \A j \in 1..(i - 1) : s[j] > s[i]

SortCharsOmitted(s) == s

SortCharsDedup(s) ==
    LET RECURSIVE asc(_)
        asc(S) == IF S = {} THEN <<>>
                  ELSE LET m == CHOOSE x \in S : \A y \in S : x <= y
                       IN  <<m>> \o asc(S \ {m})
    IN  asc({s[i] : i \in 1..Len(s)})

\* alphabet.sort_unstable(): ascending by scalar value, repeats kept
RECURSIVE SortChars(_)
SortChars(s) ==
    IF s = <<>> THEN <<>>
    ELSE LET i == MinIndex(s)
         IN  <<s[i]>> \o SortChars(SubSeq(s, 1, i - 1) \o SubSeq(s, i + 1, Len(s)))

FromBytesBe(d) ==
    LET RECURSIVE go(_, _)
        go(acc, r) == IF r = <<>> THEN acc ELSE go(acc * 256 + Head(r), Tail(r))
    IN  go(0, d)

\* BigUint::from_bytes_le(data)
RECURSIVE FromBytesLe(_)
FromBytesLe(d) == IF d = <<>> THEN 0 ELSE Head(d) + 256 * FromBytesLe(Tail(d))

AlphabetCheckOmitted(a) == a = <<>>

\* alphabet.len() < 16 on the String parameter: its length in bytes
AlphabetTooShort(a) == StrLen(a) < 16

\* (&bigint % &alphabet_length).to_u64_digits().first().copied().unwrap_or(0):
\* the remainder is below alphabet_length, so it is its own lowest u64 digit,
\* and a zero remainder has no digits and gives 0
DigitIdx(big, len) == big % len

\* the whole `while bigint > Zero::zero()` loop; alphabet.get(..).unwrap()
\* panics on an index outside the sorted alphabet
RECURSIVE DigitLoop(_, _, _)
DigitLoop(big, alpha, acc) ==
    IF big > 0
    THEN LET idx == DigitIdx(big, Len(alpha))
         IN  IF idx < Len(alpha)
             THEN DigitLoop(big \div Len(alpha), alpha, Append(acc, alpha[idx + 1]))
             ELSE Panic
    ELSE Ok(acc)

\* digest(digest_algorithm, data), run to its end
digest(alg, d) ==
    CASE alg.kind = "Base64"    -> Ok(B64Encode(d, FALSE, TRUE))
      [] alg.kind = "Base64Url" -> Ok(B64Encode(d, TRUE, FALSE))
      [] alg.kind = "Hex"       -> Ok(HexEncode(d))
      [] alg.kind = "CustomAlphabet" ->
            IF AlphabetTooShort(alg.alphabet)
            THEN Err("CustomAlphabetTooShort")
            ELSE DigitLoop(FromBytesLe(d), SortChars(alg.alphabet), <<>>)

-----------------------------------------------------------------------------
(* AlgorithmSettings and the inputs of the calls *)

None == [some |-> FALSE, n |-> 0]

Some(k) == [some |-> TRUE, n |-> k]

Prepend == [kind |-> "Prepend", n |-> 0]

AppendSalt == [kind |-> "Append", n |-> 0]

Zip(k) == [kind |-> "Zip", n |-> k]

Hex == [kind |-> "Hex", alphabet |-> <<>>]

Base64 == [kind |-> "Base64", alphabet |-> <<>>]

Base64Url == [kind |-> "Base64Url", alphabet |-> <<>>]

CustomAlphabet(a) == [kind |-> "CustomAlphabet", alphabet |-> a]

\* impl Default for AlgorithmSettings
DefaultSettings ==
    [hashing |-> "Sha256", max_length |-> None, digest |-> Base64,
     salting |-> Prepend, hashing_iterations |-> 1, salting_iterations |-> 1]

\* Alphabets the calls are made with, as scalar values:
\*   the 16 ASCII characters "0123456789abcdef", and the same reversed
Hex16 == HexDigits

Hex16Rev == [i \in 1..16 |-> HexDigits[17 - i]]

\*   "0011223344556677" and "0123456701234567": 16 characters, 8 distinct
Dup16 == [i \in 1..16 |-> 48 + ((i - 1) \div 2)]

Dup16Mixed == [i \in 1..16 |-> 48 + ((i - 1) % 8)]

\*   "short"
Short5 == <<115, 104, 111, 114, 116>>

\*   "0123456789abcde": 15 ASCII characters
Ascii15 == [i \in 1..15 |-> HexDigits[i]]

\*   U+00E0..U+00E7: 8 characters of 2 bytes each, 16 bytes
Wide8 == [i \in 1..8 |-> 223 + i]

\*   U+00E0..U+00EF: 16 characters of 2 bytes each
Wide16 == [i \in 1..16 |-> 223 + i]

\*   U+1F600..U+1F603: 4 characters of 4 bytes each, 16 bytes
Wide4 == [i \in 1..4 |-> 128511 + i]

\*   "a"
Single1 == <<97>>

Alphabets ==
    {Hex16, Hex16Rev, Dup16, Dup16Mixed, Short5, Ascii15, Wide8, Wide16, Wide4,
     Single1}

HashingAlgorithms == {"Sha256", "Sha512"}

DigestAlgorithms == {Hex, Base64, Base64Url} \cup {CustomAlphabet(a) : a \in Alphabets}

SaltingAlgorithms == {Prepend, AppendSalt} \cup {Zip(k) : k \in 0..MaxChunk}

\* the settings encode is called with
SettingsSet ==
    [hashing : HashingAlgorithms,
     max_length : {None} \cup {Some(k) : k \in 0..MaxCap},
     digest : DigestAlgorithms,
     salting : SaltingAlgorithms,
     hashing_iterations : 0..MaxIter,
     salting_iterations : 0..MaxIter]

\* byte strings of the direct calls of salt
SaltInputs == BSeq({1, 2}, MaxSalt)

\* byte strings of the direct calls of digest and hash
DataInputs == BSeq({0, 1, 255}, MaxData)

\* passphrases and codes of encode
Passphrases == BSeq({1}, MaxLen)

Codes == BSeq({2}, MaxLen)

-----------------------------------------------------------------------------
(* The state machine *)

Init ==
    /\ pc = "idle"
    /\ fn = "none"
    /\ passphrase = <<>>
    /\ code = <<>>
    /\ settings = DefaultSettings
    /\ salted = <<>>
    /\ hashed = <<>>
    /\ iter = 0
    /\ data = <<>>
    /\ alphabet = <<>>
    /\ bigint = 0
    /\ result = <<>>
    /\ digested = <<>>
    /\ ret = NoRet

RangeHasNextInclusive(i, n) == i <= n

\* `for _ in 1..n`: the range that would yield i next yields it when i < n
RangeHasNext(i, n) == i < n

\* digest returns out: to the caller, or into encode's
\* `let digested = digest(..)?`, where an error returns from encode at once
DigestReturn(out, top) ==
    IF top \/ out.kind # "Ok"
    THEN /\ ret' = out
         /\ pc' = "done"
         /\ UNCHANGED digested
    ELSE /\ digested' = out.val
         /\ pc' = "truncate"
         /\ UNCHANGED ret

\* digest(alg, d) up to its loop: the fixed encodings and the length check
\* return at once, CustomAlphabet sorts the alphabet and reads the bytes
DigestEnter(alg, d, top) ==
    /\ data' = d
    /\ IF alg.kind = "CustomAlphabet" /\ ~AlphabetTooShort(alg.alphabet)
       THEN /\ alphabet' = SortChars(alg.alphabet)
            /\ bigint' = FromBytesLe(d)
            /\ result' = <<>>
            /\ pc' = "digest_loop"
            /\ UNCHANGED <<digested, ret>>
       ELSE /\ DigestReturn(digest(alg, d), top)
            /\ UNCHANGED <<alphabet, bigint, result>>

\* the slice at the end of encode: digested.len() > n, &digested[0..n]
Truncated(s, ml) ==
    IF ml.some
    THEN IF StrLen(s) > ml.n THEN StrSlice(s, ml.n) ELSE Ok(s)
    ELSE Ok(s)

\* a caller calls salt(alg, data, salt)
CallSalt ==
    /\ pc = "idle"
    /\ \E alg \in SaltingAlgorithms, d \in SaltInputs, s \in SaltInputs :
          /\ code' = d
          /\ passphrase' = s
          /\ settings' = [DefaultSettings EXCEPT !.salting = alg]
          /\ ret' = salt(alg, d, s)
    /\ fn' = "salt"
    /\ pc' = "done"
    /\ UNCHANGED <<salted, hashed, iter, data, alphabet, bigint, result, digested>>

\* a caller calls hash(alg, data)
CallHash ==
    /\ pc = "idle"
    /\ \E alg \in HashingAlgorithms, d \in DataInputs :
          /\ code' = d
          /\ settings' = [DefaultSettings EXCEPT !.hashing = alg]
          /\ ret' = Ok(hash(alg, d))
    /\ fn' = "hash"
    /\ pc' = "done"
    /\ UNCHANGED <<passphrase, salted, hashed, iter, data, alphabet, bigint,
                   result, digested>>

\* a caller calls digest(alg, data)
CallDigest ==
    /\ pc = "idle"
    /\ \E alg \in DigestAlgorithms, d \in DataInputs :
          /\ settings' = [DefaultSettings EXCEPT !.digest = alg]
          /\ DigestEnter(alg, d, TRUE)
    /\ fn' = "digest"
    /\ UNCHANGED <<passphrase, code, salted, hashed, iter>>

\* a caller calls encode(passphrase, code, settings): the first salting pass
CallEncode ==
    /\ pc = "idle"
    /\ \E p \in Passphrases, c \in Codes, s \in SettingsSet :
          /\ passphrase' = p
          /\ code' = c
          /\ settings' = s
          /\ LET r == salt(s.salting, c, p)
             IN  IF r.kind = "panic"
                 THEN /\ ret' = Panic
                      /\ pc' = "done"
                      /\ UNCHANGED <<salted, iter>>
                 ELSE /\ salted' = r.val
                      /\ iter' = 1
                      /\ pc' = "salting"
                      /\ UNCHANGED ret
    /\ fn' = "encode"
    /\ UNCHANGED <<hashed, data, alphabet, bigint, result, digested>>

\* one pass of `for _ in 1..settings.salting_iterations`
SaltIter ==
    /\ pc = "salting"
    /\ RangeHasNext(iter, settings.salting_iterations)
    /\ LET r == salt(settings.salting, salted, passphrase)
       IN  IF r.kind = "panic"
           THEN /\ ret' = Panic
                /\ pc' = "done"
                /\ UNCHANGED <<salted, iter>>
           ELSE /\ salted' = r.val
                /\ iter' = iter + 1
                /\ UNCHANGED <<pc, ret>>
    /\ UNCHANGED <<fn, passphrase, code, settings, hashed, data, alphabet,
                   bigint, result, digested>>

\* the salting loop ends: the first hashing pass
SaltExit ==
    /\ pc = "salting"
    /\ ~RangeHasNext(iter, settings.salting_iterations)
    /\ hashed' = hash(settings.hashing, salted)
    /\ iter' = 1
    /\ pc' = "hashing"
    /\ UNCHANGED <<fn, passphrase, code, settings, salted, data, alphabet,
                   bigint, result, digested, ret>>

\* one pass of `for _ in 1..settings.hashing_iterations`
HashIter ==
    /\ pc = "hashing"
    /\ RangeHasNext(iter, settings.hashing_iterations)
    /\ hashed' = hash(settings.hashing, hashed)
    /\ iter' = iter + 1
    /\ UNCHANGED <<pc, fn, passphrase, code, settings, salted, data, alphabet,
                   bigint, result, digested, ret>>

\* the hashing loop ends: encode calls digest(&settings.digest, &hashed)
HashExit ==
    /\ pc = "hashing"
    /\ ~RangeHasNext(iter, settings.hashing_iterations)
    /\ DigestEnter(settings.digest, hashed, FALSE)
    /\ UNCHANGED <<fn, passphrase, code, settings, salted, hashed, iter>>

\* one pass of `while bigint > Zero::zero()`
DigestIter ==
    /\ pc = "digest_loop"
    /\ bigint > 0
    /\ LET idx == DigitIdx(bigint, Len(alphabet))
       IN  IF idx < Len(alphabet)
           THEN /\ result' = Append(result, alphabet[idx + 1])
                /\ bigint' = bigint \div Len(alphabet)
                /\ UNCHANGED <<pc, ret>>
           ELSE /\ ret' = Panic
                /\ pc' = "done"
                /\ UNCHANGED <<result, bigint>>
    /\ UNCHANGED <<fn, passphrase, code, settings, salted, hashed, iter, data,
                   alphabet, digested>>

\* the digit loop ends: Ok(result)
DigestExit ==
    /\ pc = "digest_loop"
    /\ ~(bigint > 0)
    /\ DigestReturn(Ok(result), fn = "digest")
    /\ UNCHANGED <<fn, passphrase, code, settings, salted, hashed, iter, data,
                   alphabet, bigint, result>>

\* encode applies max_length and returns
Truncate ==
    /\ pc = "truncate"
    /\ ret' = Truncated(digested, settings.max_length)
    /\ pc' = "done"
    /\ UNCHANGED <<fn, passphrase, code, settings, salted, hashed, iter, data,
                   alphabet, bigint, result, digested>>

\* the caller has the value; nothing of the call is kept
Return ==
    /\ pc = "done"
    /\ pc' = "idle"
    /\ fn' = "none"
    /\ passphrase' = <<>>
    /\ code' = <<>>
    /\ settings' = DefaultSettings
    /\ salted' = <<>>
    /\ hashed' = <<>>
    /\ iter' = 0
    /\ data' = <<>>
    /\ alphabet' = <<>>
    /\ bigint' = 0
    /\ result' = <<>>
    /\ digested' = <<>>
    /\ ret' = NoRet

Next ==
    \/ CallSalt
    \/ CallHash
    \/ CallDigest
    \/ CallEncode
    \/ SaltIter
    \/ SaltExit
    \/ HashIter
    \/ HashExit
    \/ DigestIter
    \/ DigestExit
    \/ Truncate
    \/ Return

Spec == Init /\ [][Next]_vars

\* digest is sequential code: once its loop is entered, the iteration or the
\* exit that can be taken is taken.
FairSpec == Spec /\ WF_vars(DigestIter) /\ WF_vars(DigestExit)

-----------------------------------------------------------------------------
(* Properties *)

Range(s) == {s[i] : i \in 1..Len(s)}

Count(s, c) == Cardinality({i \in 1..Len(s) : s[i] = c})

\* a and b hold the same characters the same number of times
IsPermutation(a, b) ==
    /\ Len(a) = Len(b)
    /\ \A c \in Range(a) \cup Range(b) : Count(a, c) = Count(b, c)

IsAscending(s) == \A i \in 1..(Len(s) - 1) : s[i] <= s[i + 1]

\* the call runs digest with a CustomAlphabet
IsCustom == settings.digest.kind = "CustomAlphabet"

\* the CustomAlphabet the caller gave, in the caller's order
Given == settings.digest.alphabet

\* digest has returned Ok from its CustomAlphabet arm: to the caller, or to
\* encode, which holds the string in `digested`
CustomReturned ==
    /\ IsCustom
    /\ \/ fn = "digest" /\ pc = "done" /\ ret.kind = "Ok"
       \/ fn = "encode" /\ pc = "truncate"

CustomOut == IF fn = "digest" THEN ret.val ELSE digested

\* encode has run past its first salting pass
EncodeSalted == fn = "encode" /\ pc \in {"salting", "hashing", "digest_loop", "truncate"}

\* encode has handed `hashed` to digest
EncodeHanded ==
    /\ fn = "encode"
    /\ pc \in {"digest_loop", "truncate", "done"}
    /\ ret.kind # "panic"

\* k salting passes over d, each pass salting the output of the one before
RECURSIVE SaltPasses(_, _, _, _)
SaltPasses(k, alg, d, s) ==
    IF k = 0 THEN d ELSE SaltPasses(k - 1, alg, salt(alg, d, s).val, s)

\* k hashing passes over d, each pass hashing the digest of the one before
RECURSIVE HashPasses(_, _, _)
HashPasses(k, alg, d) ==
    IF k = 0 THEN d ELSE HashPasses(k - 1, alg, hash(alg, d))

\* C2: the bytes encode hands to digest are max(hashing_iterations, 1) chained
\* hashing passes over max(salting_iterations, 1) chained salting passes that
\* start from the code, the passphrase being the salt of every pass; a count
\* of 0 therefore gives what a count of 1 gives.
C2_IterationPasses ==
    EncodeHanded =>
        data = HashPasses(Max(settings.hashing_iterations, 1), settings.hashing,
                   SaltPasses(Max(settings.salting_iterations, 1), settings.salting,
                              code, passphrase))

C2_Witness ==
    /\ EncodeHanded
    /\ pc = "truncate"
    /\ settings.salting_iterations = 2
    /\ settings.hashing_iterations = 0
    /\ settings.salting.kind = "Prepend"
    /\ passphrase # <<>>
    /\ code # <<>>

\* encode has returned a string or hit the slice at its end, the alphabet, if
\* one is used, having at least 16 characters
EncodeSliced ==
    /\ fn = "encode"
    /\ pc = "done"
    /\ ret.kind \in {"Ok", "panic"}
    /\ settings.salting # Zip(0)
    /\ IsCustom => Len(Given) >= 16

\* C3 (as claimed): with max_length = n and more than n characters in the
\* encoded string encode returns its first n characters, counted as scalar
\* values; otherwise it returns the encoded string unchanged.
C3_TruncateByChars ==
    EncodeSliced =>
        ret = Ok(IF settings.max_length.some /\ Len(digested) > settings.max_length.n
                 THEN SubSeq(digested, 1, settings.max_length.n)
                 ELSE digested)

\* C4 (as claimed): digest with a CustomAlphabet of fewer than 16 characters
\* fails with CustomAlphabetTooShort, and with at least 16 characters it runs
\* on to return a string.
C4_LengthInChars ==
    (fn = "digest" /\ IsCustom /\ pc \in {"digest_loop", "done"}) =>
        IF Len(Given) < 16
        THEN pc = "done" /\ ret = Err("CustomAlphabetTooShort")
        ELSE pc = "done" => ret.kind = "Ok"

\* the bytes read as one unsigned integer, byte i weighing 256^(i-1)
LittleEndianValue(d) ==
    LET RECURSIVE sum(_)
        sum(i) == IF i > Len(d) THEN 0 ELSE d[i] * Pow(256, i - 1) + sum(i + 1)
    IN  sum(1)

\* the characters of a in ascending order: position k holds the character c
\* with fewer than k characters below it and at least k not above it
Ascending(a) ==
    [k \in 1..Len(a) |->
        CHOOSE c \in Range(a) :
            /\ Cardinality({i \in 1..Len(a) : a[i] < c}) < k
            /\ k <= Cardinality({i \in 1..Len(a) : a[i] <= c})]

\* the number of base-b digits of v: the least n with b^n > v
NumDigits(v, b) == CHOOSE n \in 0..32 : Pow(b, n) > v /\ (n = 0 \/ Pow(b, n - 1) <= v)

\* C5: with B the number of characters of an accepted alphabet and V the
\* input bytes read little-endian, the CustomAlphabet string has as many
\* characters as V has base-B digits (none for V = 0) and its i-th character,
\* from 0, is the character of the ascending alphabet at floor(V / B^i) mod B.
C5_DigitsLeastFirst ==
    CustomReturned =>
        LET B == Len(Given)
            V == LittleEndianValue(data)
            sorted == Ascending(Given)
        IN  /\ Len(CustomOut) = NumDigits(V, B)
            /\ \A i \in 0..(Len(CustomOut) - 1) :
                  CustomOut[i + 1] = sorted[((V \div Pow(B, i)) % B) + 1]

C5_Witness ==
    /\ CustomReturned
    /\ fn = "digest"
    /\ Given = Hex16Rev
    /\ data = <<255, 1>>
    /\ ret.val = <<102, 102, 49>>

\* C6: the CustomAlphabet string is the same for every order in which the
\* caller lists the characters of the alphabet.
C6_OrderIrrelevant ==
    CustomReturned =>
        \A a \in Alphabets :
            IsPermutation(a, Given) => digest(CustomAlphabet(a), data) = Ok(CustomOut)

C6_Witness ==
    /\ CustomReturned
    /\ Given = Hex16Rev
    /\ Len(CustomOut) >= 2
    /\ \E a \in Alphabets : a # Given /\ IsPermutation(a, Given)

\* C7 (as claimed): the encoder removes repeated characters, so the base is
\* the number of distinct characters and no two digit values share a symbol.
C7_BaseIsDistinctCount ==
    pc = "digest_loop" =>
        /\ Len(alphabet) = Cardinality(Range(Given))
        /\ \A i, j \in 1..Len(alphabet) : i # j => alphabet[i] # alphabet[j]

\* C7 (amended): the encoder sorts the alphabet and keeps every repeat, so
\* the base is the number of characters counting repeats, and two digit
\* values share a symbol exactly when the alphabet repeats a character.
C7_SortKeepsRepeats ==
    pc = "digest_loop" =>
        /\ Len(alphabet) = Len(Given)
        /\ IsPermutation(alphabet, Given)
        /\ IsAscending(alphabet)
        /\ (\E i, j \in 1..Len(alphabet) : i # j /\ alphabet[i] = alphabet[j])
              <=> Cardinality(Range(Given)) < Len(Given)

C7_Witness ==
    /\ pc = "digest_loop"
    /\ Given = Dup16Mixed
    /\ Len(alphabet) = 16
    /\ Cardinality(Range(alphabet)) = 8
    /\ result # <<>>

\* chunk k (from 0) of x cut into n-byte chunks
Piece(x, k, n) == SubSeq(x, k * n + 1, Min((k + 1) * n, Len(x)))

\* the number of n-byte chunks of x, a shorter last one counted
ChunkCount(x, n) == (Len(x) + n - 1) \div n

\* salt chunk 0, data chunk 0, ..., up to the chunk count of the shorter side
Interleaved(n, d, s) ==
    LET m == Min(ChunkCount(d, n), ChunkCount(s, n))
        RECURSIVE upto(_)
        upto(k) == IF k = m THEN <<>> ELSE Piece(s, k, n) \o Piece(d, k, n) \o upto(k + 1)
    IN  upto(0)

\* C8: salt with Zip(n), n >= 1, returns salt chunk, data chunk, ... for the
\* positions both sequences have and drops the other chunks; when both
\* lengths are multiples of n the result has 2 * n * min(chunk counts) bytes.
C8_ZipInterleaves ==
    /\ (fn = "salt" /\ pc = "done" /\ settings.salting.kind = "Zip"
            /\ settings.salting.n >= 1) =>
          LET n == settings.salting.n
          IN  /\ ret = Ok(Interleaved(n, code, passphrase))
              /\ (Len(code) % n = 0 /\ Len(passphrase) % n = 0) =>
                    Len(ret.val) = 2 * n * Min(Len(code) \div n, Len(passphrase) \div n)
    /\ (EncodeSalted /\ pc = "salting" /\ iter = 1 /\ settings.salting.kind = "Zip") =>
          salted = Interleaved(settings.salting.n, code, passphrase)

C8_Witness ==
    /\ fn = "salt"
    /\ pc = "done"
    /\ settings.salting = Zip(2)
    /\ code = <<1, 2, 1>>
    /\ passphrase = <<2, 2>>
    /\ ret = Ok(<<2, 2, 1, 2>>)

\* C9: salt with Prepend returns salt then data, with Append data then salt,
\* both of length data + salt; encode salts the code with the passphrase, so
\* with Prepend and one salting pass it hashes passphrase ++ code.
C9_PrependAppend ==
    /\ (fn = "salt" /\ pc = "done" /\ settings.salting.kind = "Prepend") =>
          /\ ret = Ok(passphrase \o code)
          /\ Len(ret.val) = Len(code) + Len(passphrase)
    /\ (fn = "salt" /\ pc = "done" /\ settings.salting.kind = "Append") =>
          /\ ret = Ok(code \o passphrase)
          /\ Len(ret.val) = Len(code) + Len(passphrase)
    /\ (fn = "encode" /\ pc = "hashing" /\ iter = 1
            /\ settings.salting.kind = "Prepend" /\ settings.salting_iterations <= 1) =>
          /\ salted = passphrase \o code
          /\ hashed = hash(settings.hashing, passphrase \o code)

C9_Witness ==
    /\ fn = "salt"
    /\ pc = "done"
    /\ settings.salting.kind = "Prepend"
    /\ passphrase = <<1>>
    /\ code = <<2, 2>>
    /\ ret = Ok(<<1, 2, 2>>)

\* C10 (as claimed): a call of salt or encode with Zip(0) ends by returning
\* an error value; it does not panic.
C10_ZipZeroIsAnError ==
    (fn \in {"salt", "encode"} /\ pc = "done" /\ settings.salting = Zip(0)) =>
        ret.kind \notin {"Ok", "panic", "none"}

\* C11: in the CustomAlphabet digit loop the base is at least 2 and the digit
\* index is below the number of symbols, so the lookup never fails; every
\* iteration makes bigint strictly smaller and keeps it non-negative, the loop
\* leaves only by returning Ok, and a loop that has started comes to its end.
C11_DigitLoopTerminates ==
    /\ [](pc = "digest_loop" =>
            /\ Len(alphabet) >= 2
            /\ DigitIdx(bigint, Len(alphabet)) < Len(alphabet)
            /\ bigint >= 0)
    /\ [][pc = "digest_loop" =>
            /\ pc' = "digest_loop" => bigint > 0 /\ bigint' < bigint
            /\ pc' # "digest_loop" => bigint = 0 /\ ret'.kind # "panic"]_vars
    /\ (pc = "digest_loop") ~> (pc \in {"done", "truncate"})

C11_Witness ==
    /\ pc = "digest_loop"
    /\ Given = Wide4
    /\ Len(alphabet) = 4
    /\ bigint > 0
    /\ Len(result) >= 3

\* encode runs with Zip(n), n >= 1, and an empty code
ZipEmptyCode ==
    /\ fn = "encode"
    /\ settings.salting.kind = "Zip"
    /\ settings.salting.n >= 1
    /\ code = <<>>

\* what encode returns for the chained hashes of the empty byte string: the
\* digest of them, cut to max_length, or the error of digest
EncodedEmpty(s) ==
    LET d == digest(s.digest,
                    HashPasses(Max(s.hashing_iterations, 1), s.hashing, <<>>))
    IN  IF d.kind = "Ok" THEN Truncated(d.val, s.max_length) ELSE d

\* C12: with Zip(n), n >= 1, and an empty code every salting pass gives the
\* empty byte string, whatever the passphrase and the salting_iterations; the
\* bytes handed to digest are the chained hashes of the empty string, and what
\* encode returns is fixed by the settings alone, the same for all passphrases.
C12_EmptyCodeErasesPassphrase ==
    ZipEmptyCode =>
        /\ pc \in {"salting", "hashing", "digest_loop", "truncate", "done"} =>
              salted = <<>>
        /\ EncodeHanded =>
              data = HashPasses(Max(settings.hashing_iterations, 1),
                                settings.hashing, <<>>)
        /\ pc = "done" => ret = EncodedEmpty(settings)

C12_Witness ==
    /\ ZipEmptyCode
    /\ pc = "done"
    /\ passphrase # <<>>
    /\ settings.salting_iterations = 2
    /\ ret.kind = "Ok"
    /\ ret.val # <<>>

=============================================================================
